---- MODULE Spec2Model ----
(***************************************************************************)
(* Model of zellij-utils/src/fred/sessions.rs: the long listing of         *)
(* resurrectable sessions.  Rust Strings are TLA+ strings, handled         *)
(* character by character (Len, SubSeq, \o); Vec<T> is a sequence;         *)
(* Option<T> is the empty sequence (None) or a one-element sequence.       *)
(***************************************************************************)
EXTENDS Integers, Sequences, FiniteSets, TLC

VARIABLES env, status, sessions, out, arg, ret

vars == <<env, status, sessions, out, arg, ret>>

(***************************************************************************)
(* Bounds of the model.                                                    *)
(***************************************************************************)
MaxNodes == 4
MaxFloating == 2
MaxSessions == 3
MaxTimestamp == 1
MaxArgs == 2
MaxTabs == 2
MaxCommands == 1

(***************************************************************************)
(* Option and Result values.                                               *)
(***************************************************************************)
None == <<>>
Some(v) == <<v>>
Ok(v) == [ok |-> TRUE, val |-> v]
Err == [ok |-> FALSE, val |-> <<>>]
ErrStr == [ok |-> FALSE, val |-> ""]

(***************************************************************************)
(* The byte 0x1b that opens an ANSI escape sequence ("\u{1b}" in the      *)
(* source), written as a character no name, path or label contains.        *)
(***************************************************************************)
ESC == "^"

(***************************************************************************)
(* String helpers: slice::join, decimal Display of an integer.             *)
(***************************************************************************)
RECURSIVE join(_, _)
join(strs, sep) ==
    IF Len(strs) = 0 THEN ""
    ELSE IF Len(strs) = 1 THEN strs[1]
    ELSE strs[1] \o sep \o join(Tail(strs), sep)

Digit(d) == SubSeq("0123456789", d + 1, d + 1)

RECURSIVE Digits(_)
Digits(n) == IF n < 10 THEN Digit(n) ELSE Digits(n \div 10) \o Digit(n % 10)

(***************************************************************************)
(* humantime::format_duration on a Duration of whole seconds.              *)
(***************************************************************************)
item_plural(name, value) ==
    IF value = 0 THEN <<>>
    ELSE <<Digits(value) \o name \o (IF value > 1 THEN "s" ELSE "")>>

item(name, value) == IF value = 0 THEN <<>> ELSE <<Digits(value) \o name>>

format_duration(secs) ==
    IF secs = 0 THEN "0s"
    ELSE LET years == secs \div 31557600
             ydays == secs % 31557600
             months == ydays \div 2630016
             mdays == ydays % 2630016
             days == mdays \div 86400
             day_secs == mdays % 86400
             hours == day_secs \div 3600
             minutes == (day_secs % 3600) \div 60
             seconds == day_secs % 60
         IN join(item_plural("year", years) \o item_plural("month", months)
                 \o item_plural("day", days) \o item("h", hours)
                 \o item("m", minutes) \o item("s", seconds), " ")

(***************************************************************************)
(* Run and its plugin reference.                                           *)
(***************************************************************************)
Char(s, i) == SubSeq(s, i, i)

RunCommand(command, args, cwd) ==
    [kind |-> "Command", command |-> command, args |-> args, cwd |-> cwd]
RunEditFile(path) == [kind |-> "EditFile", path |-> path]
RunCwd(path) == [kind |-> "Cwd", path |-> path]
RunPlugin(plugin) == [kind |-> "Plugin", plugin |-> plugin]

location_to_string(location) ==
    IF location.kind = "File" THEN "file:" \o location.path
    ELSE IF location.kind = "Zellij" THEN "zellij:" \o location.path
    ELSE location.path

display_plugin_or_alias(plugin_or_alias) ==
    IF plugin_or_alias.kind = "RunPlugin"
    THEN location_to_string(plugin_or_alias.location)
    ELSE plugin_or_alias.name

\* OsStr::to_string_lossy / Path::to_string_lossy: a byte that is not valid
\* UTF-8 (written "#" in an OsString of the model) becomes U+FFFD (written "?").
RECURSIVE to_string_lossy(_)
to_string_lossy(os_str) ==
    IF Len(os_str) = 0 THEN ""
    ELSE (IF Char(os_str, 1) = "#" THEN "?" ELSE Char(os_str, 1))
         \o to_string_lossy(SubSeq(os_str, 2, Len(os_str)))

format_title(should_format, title) ==
    IF should_format THEN ESC \o "[35;1m" \o title \o ESC \o "[m"
    ELSE title

display_run(run, should_format) ==
    IF run.kind = "Command"
    THEN format_title(should_format, "Running:") \o " "
         \o to_string_lossy(run.command)
         \o " " \o join(run.args, " ")
    ELSE IF run.kind = "EditFile"
    THEN format_title(should_format, "File:") \o " " \o to_string_lossy(run.path)
    ELSE IF run.kind = "Cwd"
    THEN format_title(should_format, "CWD:") \o " " \o to_string_lossy(run.path)
    ELSE format_title(should_format, "Plugin:") \o " "
         \o display_plugin_or_alias(run.plugin)

(***************************************************************************)
(* serde_json's text encoding of the values this module serializes, and a  *)
(* decoder of that text (a JSON string, or an object of string fields).    *)
(***************************************************************************)
RECURSIVE json_escape(_)
json_escape(s) ==
    IF Len(s) = 0 THEN ""
    ELSE LET c == Char(s, 1)
             e == IF c = "\"" THEN "\\\""
                  ELSE IF c = "\\" THEN "\\\\"
                  ELSE IF c = ESC THEN "\\u001b"
                  ELSE c
         IN e \o json_escape(SubSeq(s, 2, Len(s)))

json_str(s) == "\"" \o json_escape(s) \o "\""

json_bool(b) == IF b THEN "true" ELSE "false"

json_seq(elems) == "[" \o join(elems, ",") \o "]"

\* Reads the JSON string whose opening quote is at position i:
\* val is its content, next the position after its closing quote.
RECURSIVE json_read_str(_, _, _)
json_read_str(s, i, acc) ==
    IF i > Len(s) THEN [val |-> acc, next |-> i]
    ELSE IF Char(s, i) = "\"" THEN [val |-> acc, next |-> i + 1]
    ELSE IF Char(s, i) = "\\"
    THEN IF Char(s, i + 1) = "u"
         THEN json_read_str(s, i + 6, acc \o ESC)
         ELSE json_read_str(s, i + 2, acc \o Char(s, i + 1))
    ELSE json_read_str(s, i + 1, acc \o Char(s, i))

\* Reads the fields of an object from position i (after "{" or ","):
\* the sequence of <<key, value>> pairs in document order.
RECURSIVE json_read_fields(_, _, _)
json_read_fields(s, i, acc) ==
    IF i > Len(s) \/ Char(s, i) # "\"" THEN acc
    ELSE LET k == json_read_str(s, i + 1, "")
             v == json_read_str(s, k.next + 2, "")
         IN IF Char(s, k.next) # ":" \/ Char(s, k.next + 1) # "\""
            THEN Append(acc, <<k.val, "<not a string>">>)
            ELSE json_read_fields(s, v.next + 1, Append(acc, <<k.val, v.val>>))

json_decode(s) ==
    IF Len(s) > 0 /\ Char(s, 1) = "\""
    THEN [kind |-> "string", val |-> json_read_str(s, 2, "").val,
          end |-> json_read_str(s, 2, "").next - 1]
    ELSE IF Len(s) > 0 /\ Char(s, 1) = "{"
    THEN [kind |-> "object", val |-> json_read_fields(s, 2, <<>>), end |-> Len(s)]
    ELSE [kind |-> "other", val |-> s, end |-> Len(s)]

(***************************************************************************)
(* impl Serialize for MyRun, through serde_json.                           *)
(***************************************************************************)
serialize_MyCommand(my_command) ==
    "{" \o json_str("command") \o ":" \o json_str(my_command.command) \o ","
        \o json_str("cwd") \o ":" \o json_str(my_command.cwd) \o "}"

\* variant: the other variants formatted with colorization
serialize_MyRun_colorized(run) ==
    IF run.kind = "Command"
    THEN LET command == to_string_lossy(run.command) \o " " \o join(run.args, " ")
             cwd == IF run.cwd # None THEN to_string_lossy(run.cwd[1]) ELSE ""
         IN serialize_MyCommand([command |-> command, cwd |-> cwd])
    ELSE json_str(display_run(run, TRUE))

serialize_MyRun(run) ==
    IF run.kind = "Command"
    THEN LET command == to_string_lossy(run.command) \o " " \o join(run.args, " ")
             cwd == IF run.cwd # None THEN to_string_lossy(run.cwd[1]) ELSE ""
         IN serialize_MyCommand([command |-> command, cwd |-> cwd])
    ELSE json_str(display_run(run, FALSE))

(***************************************************************************)
(* Layout Flattener: collect_commands_recursive and Tab::new.              *)
(* A TiledPaneLayout is [run |-> Option<Run>, children |-> Vec of them];   *)
(* a FloatingPaneLayout is [run |-> Option<Run>].                          *)
(***************************************************************************)
TiledPaneLayout(run, children) == [run |-> run, children |-> children]
FloatingPaneLayout(run) == [run |-> run]

\* variant: a node's run pushed after its subtree (post-order)
RECURSIVE collect_commands_postorder(_, _)
collect_commands_postorder(tile, buf) ==
    LET RECURSIVE for_child(_, _)
        for_child(i, b) ==
            IF i > Len(tile.children) THEN b
            ELSE LET child == tile.children[i]
                     b1 == collect_commands_postorder(child, b)
                 IN for_child(i + 1, IF child.run # None
                                     THEN Append(b1, child.run[1]) ELSE b1)
    IN for_child(1, buf)

RECURSIVE collect_commands_recursive(_, _)
collect_commands_recursive(tile, buf) ==
    LET RECURSIVE for_child(_, _)
        for_child(i, b) ==
            IF i > Len(tile.children) THEN b
            ELSE LET child == tile.children[i]
                     b1 == IF child.run # None
                           THEN Append(b, child.run[1]) ELSE b
                 IN for_child(i + 1, collect_commands_recursive(child, b1))
    IN for_child(1, buf)

\* Iterator::filter_map(|float| float.run) over the floating panes
RECURSIVE filter_map_run(_)
filter_map_run(floating_panes) ==
    IF Len(floating_panes) = 0 THEN <<>>
    ELSE floating_panes[1].run \o filter_map_run(Tail(floating_panes))

Tab_new(name, tile, floating_panes) ==
    LET tile_commands == collect_commands_recursive(tile, <<>>)
        floating_commands == filter_map_run(floating_panes)
    IN [name |-> name, commands |-> tile_commands \o floating_commands]

(***************************************************************************)
(* Display Model Builder: Session::new and collect_sessions.               *)
(* A Layout is [tabs |-> Vec<(Option<String>, TiledPaneLayout,             *)
(* Vec<FloatingPaneLayout>)>]; e is the state of the collaborators.        *)
(***************************************************************************)
\* variant: a session without a layout gets one unnamed, empty tab
Session_new_default_tab(name, timestamp, layout, is_current, is_active) ==
    LET tabs == IF layout # None THEN layout[1].tabs
                ELSE << <<None, TiledPaneLayout(None, <<>>), <<>> >> >>
    IN [name |-> name,
        tabs |-> [i \in 1..Len(tabs) |-> Tab_new(tabs[i][1], tabs[i][2], tabs[i][3])],
        timestamp |-> timestamp,
        is_current |-> is_current,
        is_active |-> is_active]

Session_new(name, timestamp, layout, is_current, is_active) ==
    LET tabs == IF layout # None THEN layout[1].tabs ELSE <<>>
    IN [name |-> name,
        tabs |-> [i \in 1..Len(tabs) |-> Tab_new(tabs[i][1], tabs[i][2], tabs[i][3])],
        timestamp |-> timestamp,
        is_current |-> is_current,
        is_active |-> is_active]

\* variant: a failed lookup falls back to a session name
curr_session_name_fallback(e) == IF e.session_name.ok THEN e.session_name.val ELSE "work"

\* envs::get_session_name().unwrap_or_else(|_| "".into())
curr_session_name(e) == IF e.session_name.ok THEN e.session_name.val ELSE ""

\* Vec::contains
contains(v, x) == \E i \in 1..Len(v) : v[i] = x

\* variant: a failed layout resolution counts as no layout
collect_sessions_lenient(e) ==
    LET curr_session == curr_session_name(e)
        resurrectable == e.resurrectable
    IN IF ~e.sessions.ok THEN Err
       ELSE LET active_session_names ==
                    [i \in 1..Len(e.sessions.val) |-> e.sessions.val[i][1]]
            IN Ok([i \in 1..Len(resurrectable) |->
                     LET name == resurrectable[i][1]
                         timestamp == resurrectable[i][2]
                         is_active == contains(active_session_names, name)
                         is_current == name = curr_session
                         layout == IF e.layout[name].ok THEN e.layout[name].val ELSE None
                     IN Session_new(name, timestamp, layout, is_current, is_active)])

\* Ok(the Vec<Session>), or Err when an unwrap() panics
collect_sessions(e) ==
    LET curr_session == curr_session_name(e)
        resurrectable == e.resurrectable
    IN IF ~e.sessions.ok THEN Err
       ELSE LET active_session_names ==
                    [i \in 1..Len(e.sessions.val) |-> e.sessions.val[i][1]]
            IN IF \E i \in 1..Len(resurrectable) : ~e.layout[resurrectable[i][1]].ok
               THEN Err
               ELSE Ok([i \in 1..Len(resurrectable) |->
                          LET name == resurrectable[i][1]
                              timestamp == resurrectable[i][2]
                              is_active == contains(active_session_names, name)
                              is_current == name = curr_session
                              layout == e.layout[name].val
                          IN Session_new(name, timestamp, layout,
                                         is_current, is_active)])

(***************************************************************************)
(* Renderers.  Each returns the lines it prints, one per println!.         *)
(***************************************************************************)
unnamed_tab_str == "<Unnamed Tab>"

unwrap_or(opt, default) == IF opt # None THEN opt[1] ELSE default

\* the concatenation of a sequence of sequences
RECURSIVE flatten(_)
flatten(seqs) == IF Len(seqs) = 0 THEN <<>> ELSE seqs[1] \o flatten(Tail(seqs))

\* variant: the current-session marker left out
print_session_unmarked(session) ==
    LET formatted_session_name == ESC \o "[32;1m" \o session.name \o ESC \o "[m"
        timestamp == "[Created " \o ESC \o "[35;1m"
                     \o format_duration(session.timestamp) \o ESC \o "[m" \o " ago]"
        tab_lines(tab) ==
            <<ESC \o "[36;1m" \o unwrap_or(tab.name, unnamed_tab_str) \o ESC \o "[m" \o ":">>
            \o [i \in 1..Len(tab.commands) |-> " " \o display_run(tab.commands[i], TRUE)]
    IN <<formatted_session_name \o " " \o timestamp>>
       \o (IF Len(session.tabs) = 0 THEN <<"  No running commands">>
           ELSE flatten([i \in 1..Len(session.tabs) |-> tab_lines(session.tabs[i])]))
       \o <<"">>

print_session(session) ==
    LET formatted_session_name == ESC \o "[32;1m" \o session.name \o ESC \o "[m"
        timestamp == "[Created " \o ESC \o "[35;1m"
                     \o format_duration(session.timestamp) \o ESC \o "[m" \o " ago]"
        current_text == IF session.is_current THEN " (current)" ELSE ""
        tab_lines(tab) ==
            <<ESC \o "[36;1m" \o unwrap_or(tab.name, unnamed_tab_str) \o ESC \o "[m" \o ":">>
            \o [i \in 1..Len(tab.commands) |-> " " \o display_run(tab.commands[i], TRUE)]
    IN <<formatted_session_name \o " " \o timestamp \o current_text>>
       \o (IF Len(session.tabs) = 0 THEN <<"  No running commands">>
           ELSE flatten([i \in 1..Len(session.tabs) |-> tab_lines(session.tabs[i])]))
       \o <<"">>

print_unformatted_session(session) ==
    LET current_text == IF session.is_current THEN " (current)" ELSE ""
        timestamp == "Created " \o format_duration(session.timestamp) \o " ago"
        tab_lines(tab) ==
            <<unwrap_or(tab.name, unnamed_tab_str) \o ":">>
            \o [i \in 1..Len(tab.commands) |-> display_run(tab.commands[i], FALSE)]
    IN <<session.name \o " " \o timestamp \o current_text>>
       \o (IF Len(session.tabs) = 0 THEN <<"No running commands">>
           ELSE flatten([i \in 1..Len(session.tabs) |-> tab_lines(session.tabs[i])]))

\* #[derive(Serialize)] for Tab and Session, through serde_json
serialize_Tab(tab) ==
    "{" \o json_str("name") \o ":"
        \o (IF tab.name # None THEN json_str(tab.name[1]) ELSE "null") \o ","
        \o json_str("commands") \o ":"
        \o json_seq([i \in 1..Len(tab.commands) |-> serialize_MyRun(tab.commands[i])])
        \o "}"

serialize_Session(session) ==
    "{" \o json_str("name") \o ":" \o json_str(session.name) \o ","
        \o json_str("tabs") \o ":"
        \o json_seq([i \in 1..Len(session.tabs) |-> serialize_Tab(session.tabs[i])]) \o ","
        \o json_str("timestamp") \o ":{" \o json_str("secs") \o ":"
        \o Digits(session.timestamp) \o "," \o json_str("nanos") \o ":0},"
        \o json_str("is_current") \o ":" \o json_bool(session.is_current) \o ","
        \o json_str("is_active") \o ":" \o json_bool(session.is_active) \o "}"

print_sessions_json(sessions_vec) ==
    <<json_seq([i \in 1..Len(sessions_vec) |-> serialize_Session(sessions_vec[i])])>>

(***************************************************************************)
(* Sorter.  slice::sort_unstable_by_key leaves the order of equal keys     *)
(* unspecified: every arrangement in key order is a possible result.       *)
(***************************************************************************)
\* cmp::Reverse on a Duration key: the opposite order
Reverse(key) == -key

\* variant: the order left as collected
sort_unstable_by_key_skipped(v, key) == {v}

\* key[i] is the key of v[i]
sort_unstable_by_key(v, key) ==
    {[i \in 1..Len(v) |-> v[p[i]]] : p \in
        {q \in Permutations(1..Len(v)) :
            \A i, j \in 1..Len(v) : i < j => key[q[i]] <= key[q[j]]}}

\* variant: the two directions exchanged
sort_key_exchanged(session, reverse) ==
    IF reverse THEN Reverse(session.timestamp) ELSE session.timestamp

sort_key(session, reverse) ==
    IF reverse THEN session.timestamp ELSE Reverse(session.timestamp)

(***************************************************************************)
(* Entry points.  Each gives the possible outcomes of one call: whether it *)
(* returned or panicked, its local `sessions` and the lines it printed.    *)
(***************************************************************************)
Outcome(st, sessions_vec, lines) ==
    [status |-> st, sessions |-> sessions_vec, out |-> lines]

\* variant: every session of the collection printed on a match
print_session_by_name_all(e, session_name, no_formatting) ==
    LET collected == collect_sessions(e)
    IN IF ~collected.ok THEN {Outcome("panicked", <<>>, <<>>)}
       ELSE LET sessions_vec == collected.val
                found == {i \in 1..Len(sessions_vec) : sessions_vec[i].name = session_name}
            IN IF found # {}
               THEN {Outcome("done", sessions_vec,
                       flatten([i \in 1..Len(sessions_vec) |->
                                  IF no_formatting
                                  THEN print_unformatted_session(sessions_vec[i])
                                  ELSE print_session(sessions_vec[i])]))}
               ELSE {Outcome("done", sessions_vec,
                             <<"No session found with the name " \o session_name>>)}

print_session_by_name(e, session_name, no_formatting) ==
    LET collected == collect_sessions(e)
    IN IF ~collected.ok THEN {Outcome("panicked", <<>>, <<>>)}
       ELSE LET sessions_vec == collected.val
                found == {i \in 1..Len(sessions_vec) : sessions_vec[i].name = session_name}
            IN IF found # {}
               THEN LET session == sessions_vec[CHOOSE i \in found : \A j \in found : i <= j]
                    IN {Outcome("done", sessions_vec,
                                IF no_formatting THEN print_unformatted_session(session)
                                ELSE print_session(session))}
               ELSE {Outcome("done", sessions_vec,
                             <<"No session found with the name " \o session_name>>)}

list_sessions_long(e, json, no_formatting, reverse) ==
    LET collected == collect_sessions(e)
    IN IF ~collected.ok THEN {Outcome("panicked", <<>>, <<>>)}
       ELSE LET key == [i \in 1..Len(collected.val) |->
                           sort_key(collected.val[i], reverse)]
            IN {Outcome("done", sorted,
                        IF json THEN print_sessions_json(sorted)
                        ELSE IF no_formatting
                        THEN flatten([i \in 1..Len(sorted) |->
                                         print_unformatted_session(sorted[i])])
                        ELSE flatten([i \in 1..Len(sorted) |->
                                         print_session(sorted[i])])) :
                sorted \in sort_unstable_by_key(collected.val, key)}

(***************************************************************************)
(* Inputs of the model.                                                    *)
(***************************************************************************)
\* sequences over S of length at most n
SeqUpTo(S, n) == UNION {[1..k -> S] : k \in 0..n}

Programs == {"vim", "s#h"}
Args == {"notes.md", "say \"hi\"", ""}
Paths == {"/home/u", "C:\\tmp"}

CommandRuns ==
    {RunCommand(c, a, w) : c \in Programs, a \in SeqUpTo(Args, MaxArgs),
                           w \in {None} \cup {Some(q) : q \in Paths}}
PluginRuns ==
    {RunPlugin([kind |-> "RunPlugin", location |-> [kind |-> k, path |-> "status-bar"]]) :
        k \in {"File", "Zellij", "Remote"}}
    \cup {RunPlugin([kind |-> "Alias", name |-> "filepicker"])}
Runs ==
    CommandRuns \cup {RunEditFile(q) : q \in Paths} \cup {RunCwd(q) : q \in Paths}
    \cup PluginRuns

RunVim == RunCommand("vim", <<"notes.md">>, Some("/home/u"))
RunFile == RunEditFile("/home/u")
RunAlias == RunPlugin([kind |-> "Alias", name |-> "filepicker"])

\* the optional runs a pane of the flattener's inputs carries
PaneRuns == {None, Some(RunVim), Some(RunFile)}

\* the tiled-pane trees of exactly n nodes, and the sequences of trees of
\* n nodes in all
RECURSIVE Trees(_), Forests(_)
Trees(n) == {TiledPaneLayout(r, f) : r \in PaneRuns, f \in Forests(n - 1)}
Forests(n) ==
    IF n = 0 THEN {<<>>}
    ELSE UNION {{<<t>> \o f : t \in Trees(k), f \in Forests(n - k)} : k \in 1..n}

TiledLayouts == UNION {Trees(n) : n \in 1..MaxNodes}
FloatingLayouts ==
    SeqUpTo({FloatingPaneLayout(r) : r \in {None, Some(RunAlias)}}, MaxFloating)
TabNames == {None, Some("main")}

\* the sessions of the renderers' inputs
TimestampSet == {3600 * t : t \in 0..MaxTimestamp}
RenderedRuns == {RunVim, RunFile, RunAlias}
RenderedTabs ==
    {[name |-> n, commands |-> c] : n \in TabNames, c \in SeqUpTo(RenderedRuns, MaxCommands)}
RenderedSession(t, d, c) ==
    [name |-> "work", tabs |-> t, timestamp |-> d, is_current |-> c, is_active |-> FALSE]

\* the collaborators of a listing request
SessionName(i) == IF i = 1 THEN "work" ELSE "s" \o Digits(i)
SessionNames == {SessionName(i) : i \in 1..MaxSessions}

LayoutMain ==
    [tabs |-> <<
        <<Some("main"),
          TiledPaneLayout(None, <<TiledPaneLayout(Some(RunVim),
                                                  <<TiledPaneLayout(Some(RunFile), <<>>)>>),
                                  TiledPaneLayout(None, <<>>)>>),
          <<FloatingPaneLayout(None), FloatingPaneLayout(Some(RunAlias))>> >>,
        <<None, TiledPaneLayout(None, <<>>), <<>> >> >>]
LayoutResults == {Err, Ok(None), Ok(Some(LayoutMain))}

\* the names of S in the order the resurrection store lists them
RECURSIVE Listed(_, _)
Listed(S, i) ==
    IF i > MaxSessions THEN <<>>
    ELSE (IF SessionName(i) \in S THEN <<SessionName(i)>> ELSE <<>>) \o Listed(S, i + 1)

\* the collaborators' answers: the current session name, the active
\* sessions, and for every name of S its timestamp f[n][1] and layout f[n][2]
Env(cur, act, S, f) ==
    LET names == Listed(S, 1)
    IN [session_name |-> cur,
        sessions |-> act,
        resurrectable |-> [i \in 1..Len(names) |-> <<names[i], f[names[i]][1]>>],
        layout |-> [n \in S |-> f[n][2]]]

(***************************************************************************)
(* A listing request: one process, one call of an entry point.             *)
(***************************************************************************)
Init ==
    /\ \E cur \in {ErrStr, Ok("work")}, act \in {Err, Ok(<< <<"work", 0>> >>)},
          S \in SUBSET SessionNames :
          \E f \in [S -> TimestampSet \X LayoutResults] : env = Env(cur, act, S, f)
    /\ status = "idle"
    /\ sessions = <<>>
    /\ out = <<>>
    /\ arg = <<>>
    /\ ret = <<>>

Finish(outcome) ==
    /\ status' = outcome.status
    /\ sessions' = outcome.sessions
    /\ out' = out \o outcome.out

ListSessionsLong ==
    /\ status = "idle"
    /\ \E json \in BOOLEAN, no_formatting \in BOOLEAN, reverse \in BOOLEAN :
          /\ arg' = [op |-> "list_sessions_long", json |-> json,
                     no_formatting |-> no_formatting, reverse |-> reverse,
                     session_name |-> ""]
          /\ \E outcome \in list_sessions_long(env, json, no_formatting, reverse) :
                Finish(outcome)
    /\ UNCHANGED <<env, ret>>

PrintSessionByName ==
    /\ status = "idle"
    /\ \E session_name \in SessionNames \cup {"nope"}, no_formatting \in BOOLEAN :
          /\ arg' = [op |-> "print_session_by_name", json |-> FALSE,
                     no_formatting |-> no_formatting, reverse |-> FALSE,
                     session_name |-> session_name]
          /\ \E outcome \in print_session_by_name(env, session_name, no_formatting) :
                Finish(outcome)
    /\ UNCHANGED <<env, ret>>

Next == ListSessionsLong \/ PrintSessionByName

Spec == Init /\ [][Next]_vars

(***************************************************************************)
(* The Layout Flattener on its own: Tab::new on every tab of the bounds.   *)
(***************************************************************************)
InitTab ==
    /\ arg \in [name : TabNames, tile : TiledLayouts, floating_panes : FloatingLayouts]
    /\ status = "idle"
    /\ ret = <<>>
    /\ env = <<>> /\ sessions = <<>> /\ out = <<>>

TabNew ==
    /\ status = "idle"
    /\ ret' = Tab_new(arg.name, arg.tile, arg.floating_panes)
    /\ status' = "done"
    /\ UNCHANGED <<env, sessions, out, arg>>

NextTab == TabNew

SpecTab == InitTab /\ [][NextTab]_vars

(***************************************************************************)
(* The structured encoding of one Run.                                     *)
(***************************************************************************)
InitRun ==
    /\ arg \in Runs
    /\ status = "idle"
    /\ ret = <<>>
    /\ env = <<>> /\ sessions = <<>> /\ out = <<>>

SerializeRun ==
    /\ status = "idle"
    /\ ret' = serialize_MyRun(arg)
    /\ status' = "done"
    /\ UNCHANGED <<env, sessions, out, arg>>

NextRun == SerializeRun

SpecRun == InitRun /\ [][NextRun]_vars

(***************************************************************************)
(* The two text renderers on the same session.                             *)
(***************************************************************************)
InitRender ==
    /\ \E k \in 0..MaxTabs, d \in TimestampSet, c \in BOOLEAN :
          \E t \in [1..k -> RenderedTabs] : arg = RenderedSession(t, d, c)
    /\ status = "idle"
    /\ ret = [formatted |-> None, unformatted |-> None]
    /\ env = <<>> /\ sessions = <<>> /\ out = <<>>

PrintSession ==
    /\ ret.formatted = None
    /\ ret' = [ret EXCEPT !.formatted = Some(print_session(arg))]
    /\ status' = IF ret.unformatted # None THEN "done" ELSE status
    /\ UNCHANGED <<env, sessions, out, arg>>

PrintUnformattedSession ==
    /\ ret.unformatted = None
    /\ ret' = [ret EXCEPT !.unformatted = Some(print_unformatted_session(arg))]
    /\ status' = IF ret.formatted # None THEN "done" ELSE status
    /\ UNCHANGED <<env, sessions, out, arg>>

NextRender == PrintSession \/ PrintUnformattedSession

SpecRender == InitRender /\ [][NextRender]_vars

(***************************************************************************)
(* Properties of the Layout Flattener (under SpecTab).                     *)
(***************************************************************************)
\* the paths (child positions from the root) of the nodes of a tiled tree
RECURSIVE PathsOf(_)
PathsOf(tile) ==
    {<<>>} \cup UNION {{<<i>> \o q : q \in PathsOf(tile.children[i])} :
                         i \in 1..Len(tile.children)}

RECURSIVE NodeAt(_, _)
NodeAt(tile, path) ==
    IF path = <<>> THEN tile ELSE NodeAt(tile.children[path[1]], Tail(path))

\* path a comes before path b in depth-first pre-order: a is an ancestor
\* of b, or a branches off to an earlier sibling than b does
PathBefore(a, b) ==
    /\ a # b
    /\ \/ Len(a) < Len(b) /\ SubSeq(b, 1, Len(a)) = a
       \/ \E k \in 1..Len(a) :
             /\ k <= Len(b)
             /\ SubSeq(a, 1, k - 1) = SubSeq(b, 1, k - 1)
             /\ a[k] < b[k]

RECURSIVE InPreOrder(_)
InPreOrder(S) ==
    IF S = {} THEN <<>>
    ELSE LET first == CHOOSE a \in S : \A b \in S \ {a} : PathBefore(a, b)
         IN <<first>> \o InPreOrder(S \ {first})

RunPaths(tile) == {a \in PathsOf(tile) : NodeAt(tile, a).run # None}

RunIndices(floating_panes) ==
    {i \in 1..Len(floating_panes) : floating_panes[i].run # None}

\* the elements of a set of integers in increasing order
RECURSIVE Increasing(_)
Increasing(S) ==
    IF S = {} THEN <<>>
    ELSE LET least == CHOOSE i \in S : \A j \in S : i <= j
         IN <<least>> \o Increasing(S \ {least})

\* C1: the command sequence built by Tab::new has one entry for every tiled
\* node that carries a Run, the root of the tree included, and one for every
\* floating pane that carries a Run.
C1_LengthCountsEveryRun ==
    status = "done" =>
        Len(ret.commands) = Cardinality(RunPaths(arg.tile))
                            + Cardinality(RunIndices(arg.floating_panes))

\* C2: the command sequence built by Tab::new is the runs of the tiled nodes
\* (those below the root) in depth-first pre-order, followed by the runs of
\* the floating panes that carry one, in declaration order.
C2_PreOrderThenFloating ==
    status = "done" =>
        LET tiled == InPreOrder(RunPaths(arg.tile) \ {<<>>})
            floating == Increasing(RunIndices(arg.floating_panes))
        IN ret.commands =
             [i \in 1..Len(tiled) |-> NodeAt(arg.tile, tiled[i]).run[1]]
             \o [i \in 1..Len(floating) |-> arg.floating_panes[floating[i]].run[1]]

\* a parent with a run, its child with another run, a later sibling with a
\* run, one floating pane without a run and one with a run
C2_Witness ==
    /\ status = "done"
    /\ Len(arg.tile.children) = 2
    /\ arg.tile.children[1].run = Some(RunVim)
    /\ Len(arg.tile.children[1].children) = 1
    /\ arg.tile.children[1].children[1].run = Some(RunFile)
    /\ arg.tile.children[2].run = Some(RunVim)
    /\ arg.floating_panes = <<FloatingPaneLayout(None), FloatingPaneLayout(Some(RunAlias))>>
    /\ ret.commands = <<RunVim, RunFile, RunVim, RunAlias>>

(***************************************************************************)
(* Properties of a listing request (under Spec).                           *)
(***************************************************************************)
StartsWith(s, prefix) ==
    Len(prefix) <= Len(s) /\ SubSeq(s, 1, Len(prefix)) = prefix

Contains(s, sub) ==
    \E i \in 1..(Len(s) - Len(sub) + 1) : SubSeq(s, i, i + Len(sub) - 1) = sub

IsListing == arg # <<>> /\ arg.op = "list_sessions_long"
IsByName == arg # <<>> /\ arg.op = "print_session_by_name"

RegistryFails == ~env.sessions.ok
LayoutFails(i) == ~env.layout[env.resurrectable[i][1]].ok
SomeLayoutFails == \E i \in 1..Len(env.resurrectable) : LayoutFails(i)

\* C3: a listing request whose registry query fails, or whose layout
\* resolution fails for any resurrectable session, aborts with nothing
\* written to the output stream; every other request runs to completion.
C3_NoPartialListing ==
    status # "idle" =>
        IF RegistryFails \/ SomeLayoutFails
        THEN status = "panicked" /\ out = <<>>
        ELSE status = "done"

\* the layout of the last of three sessions fails after two were resolved
C3_Witness ==
    /\ status = "panicked"
    /\ ~RegistryFails
    /\ Len(env.resurrectable) = 3
    /\ ~LayoutFails(1) /\ ~LayoutFails(2) /\ LayoutFails(3)
    /\ env.layout[env.resurrectable[1][1]].val # None
    /\ out = <<>>

IsPermutationOf(v, w) ==
    /\ Len(v) = Len(w)
    /\ \E q \in Permutations(1..Len(v)) : \A i \in 1..Len(v) : v[i] = w[q[i]]

\* the header lines of the plain listing
IsPlainHeader(line) == \E n \in SessionNames : StartsWith(line, n \o " Created ")

\* C4: list_sessions_long renders a permutation of the collected sessions,
\* none dropped and none duplicated, in non-increasing timestamp order when
\* reverse is false and in non-decreasing timestamp order when it is true.
C4_SortedPermutation ==
    (IsListing /\ status = "done") =>
        /\ IsPermutationOf(sessions, collect_sessions(env).val)
        /\ \A i, j \in 1..Len(sessions) :
              i < j => IF arg.reverse
                       THEN sessions[i].timestamp <= sessions[j].timestamp
                       ELSE sessions[i].timestamp >= sessions[j].timestamp
        /\ (~arg.json /\ arg.no_formatting) =>
              LET headers == SelectSeq(out, IsPlainHeader)
              IN /\ Len(headers) = Len(sessions)
                 /\ \A i \in 1..Len(headers) :
                       StartsWith(headers[i],
                                  sessions[i].name \o " Created "
                                  \o format_duration(sessions[i].timestamp) \o " ago")

\* three sessions collected out of order, two of them with equal timestamps
C4_Witness ==
    /\ IsListing /\ status = "done"
    /\ ~arg.json /\ arg.no_formatting /\ ~arg.reverse
    /\ Len(env.resurrectable) = 3
    /\ env.resurrectable[1][2] = 0
    /\ env.resurrectable[2][2] = 3600
    /\ env.resurrectable[3][2] = 0
    /\ sessions[1].name = env.resurrectable[2][1]

IsOldest(session) == \A i \in 1..Len(sessions) : sessions[i].timestamp <= session.timestamp
IsNewest(session) == \A i \in 1..Len(sessions) : sessions[i].timestamp >= session.timestamp

\* C5: with timestamp the time elapsed since the session was created,
\* list_sessions_long lists the newest session first by default and the
\* oldest session first when reverse is requested.
C5_NewestFirstByDefault ==
    (IsListing /\ status = "done" /\ Len(sessions) > 0) =>
        IF arg.reverse THEN IsOldest(sessions[1]) ELSE IsNewest(sessions[1])

\* C5 as amended: list_sessions_long lists the oldest session first by
\* default and the newest session first when reverse is requested.
C5_OldestFirstByDefault ==
    (IsListing /\ status = "done" /\ Len(sessions) > 0) =>
        IF arg.reverse THEN IsNewest(sessions[1]) ELSE IsOldest(sessions[1])

\* a default listing of sessions the store lists newest first
C5_Witness ==
    /\ IsListing /\ status = "done" /\ ~arg.reverse
    /\ Len(env.resurrectable) >= 2
    /\ env.resurrectable[1][2] = 0
    /\ env.resurrectable[2][2] = 3600
    /\ sessions[1].timestamp = 3600

SessionsNamed(n) == {i \in 1..Len(sessions) : sessions[i].name = n}

NoLayout(n) == env.layout[n].val = None

Count(lines, line) == Cardinality({i \in 1..Len(lines) : lines[i] = line})

\* C6: when all collaborators succeed, the built collection holds exactly
\* one Session per resurrectable session, with its name and timestamp; a
\* session without a layout is there with no tabs, and both text renderers
\* print the "No running commands" notice for it and no tab or command line.
C6_OneSessionEach ==
    status = "done" =>
        /\ Len(sessions) = Len(env.resurrectable)
        /\ \A i \in 1..Len(env.resurrectable) :
              LET n == env.resurrectable[i][1]
              IN /\ Cardinality(SessionsNamed(n)) = 1
                 /\ \A k \in SessionsNamed(n) :
                       /\ sessions[k].timestamp = env.resurrectable[i][2]
                       /\ NoLayout(n) => sessions[k].tabs = <<>>
        /\ (IsByName /\ arg.session_name \in DOMAIN env.layout
                     /\ NoLayout(arg.session_name)) =>
              /\ Len(out) = IF arg.no_formatting THEN 2 ELSE 3
              /\ StartsWith(out[1], IF arg.no_formatting
                                    THEN arg.session_name \o " Created "
                                    ELSE ESC \o "[32;1m" \o arg.session_name)
              /\ out[2] = IF arg.no_formatting THEN "No running commands"
                          ELSE "  No running commands"
              /\ ~arg.no_formatting => out[3] = ""
        /\ (IsListing /\ ~arg.json) =>
              Count(out, IF arg.no_formatting THEN "No running commands"
                         ELSE "  No running commands")
                 = Cardinality({k \in 1..Len(sessions) : sessions[k].tabs = <<>>})

\* a session without a layout, printed by name, among sessions with layouts
C6_Witness ==
    /\ status = "done" /\ IsByName
    /\ Len(env.resurrectable) = 3
    /\ arg.session_name = env.resurrectable[2][1]
    /\ NoLayout(arg.session_name)
    /\ env.layout[env.resurrectable[1][1]].val = Some(LayoutMain)
    /\ Len(out) >= 2

AnyLine(lines, sub) == \E i \in 1..Len(lines) : Contains(lines[i], sub)

\* C9: a failed current-session-name lookup is not fatal: the listing
\* completes unless another collaborator fails, no session is current and
\* no output carries the current-session marker; when the lookup succeeds,
\* the current sessions are exactly those with the current name.
C9_CurrentSession ==
    /\ (status # "idle" /\ ~(RegistryFails \/ SomeLayoutFails)) => status = "done"
    /\ status = "done" =>
          /\ \A i \in 1..Len(sessions) :
                sessions[i].is_current <=>
                   (env.session_name.ok /\ sessions[i].name = env.session_name.val)
          /\ ~env.session_name.ok =>
                /\ ~AnyLine(out, "(current)")
                /\ ~AnyLine(out, "\"is_current\":true")

\* the lookup fails and the listing prints the session named "work"
C9_Witness ==
    /\ status = "done" /\ IsListing
    /\ ~env.session_name.ok
    /\ Len(sessions) >= 2
    /\ SessionsNamed("work") # {}
    /\ Len(out) > 0

\* C10: print_session_by_name with a name that matches no session writes
\* only "No session found with the name <name>" and ends normally; with a
\* name that matches, it writes what the selected text renderer writes for
\* that one session and nothing else.
C10_ByName ==
    (IsByName /\ status # "idle" /\ ~(RegistryFails \/ SomeLayoutFails)) =>
        /\ status = "done"
        /\ IF SessionsNamed(arg.session_name) = {}
           THEN out = <<"No session found with the name " \o arg.session_name>>
           ELSE \E k \in SessionsNamed(arg.session_name) :
                   out = IF arg.no_formatting
                         THEN print_unformatted_session(sessions[k])
                         ELSE print_session(sessions[k])

\* a name that matches neither of two sessions
C10_Witness ==
    /\ IsByName /\ status = "done"
    /\ Len(sessions) = 2
    /\ SessionsNamed(arg.session_name) = {}
    /\ Len(out) = 1

(***************************************************************************)
(* Properties of the structured encoding of a Run (under SpecRun).         *)
(***************************************************************************)
\* C7: a Command encodes as an object with exactly the fields command
\* (program, one space, the args joined by single spaces) and cwd (the
\* working directory, or the empty string when absent), so decoding gives
\* these two fields back; every other Run encodes as one string, the
\* Run-formatting rule's output without colorization or escape sequence.
C7_StructuredEncoding ==
    status = "done" =>
        LET decoded == json_decode(ret)
        IN IF arg.kind = "Command"
           THEN /\ decoded.kind = "object"
                /\ decoded.val =
                      << <<"command", to_string_lossy(arg.command) \o " "
                                      \o join(arg.args, " ")>>,
                         <<"cwd", IF arg.cwd = None THEN ""
                                  ELSE to_string_lossy(arg.cwd[1])>> >>
                /\ Char(ret, Len(ret)) = "}"
           ELSE /\ decoded.kind = "string"
                /\ decoded.end = Len(ret)
                /\ decoded.val = display_run(arg, FALSE)
                /\ ~Contains(decoded.val, ESC)
                /\ \E label \in {"File: ", "CWD: ", "Plugin: "} :
                      StartsWith(decoded.val, label)

\* a Command without a working directory whose args need escaping
C7_Witness ==
    /\ status = "done"
    /\ arg.kind = "Command"
    /\ arg.cwd = None
    /\ arg.args = <<"say \"hi\"", "notes.md">>
    /\ ret = "{\"command\":\"vim say \\\"hi\\\" notes.md\",\"cwd\":\"\"}"

(***************************************************************************)
(* Properties of the two text renderers (under SpecRender).                *)
(***************************************************************************)
RECURSIVE StripIndent(_)
StripIndent(line) ==
    IF Len(line) > 0 /\ Char(line, 1) = " "
    THEN StripIndent(SubSeq(line, 2, Len(line)))
    ELSE line

\* removes every escape sequence: ESC, "[", the parameters and the final "m"
RECURSIVE StripEscapes(_, _)
StripEscapes(line, inside) ==
    IF Len(line) = 0 THEN ""
    ELSE LET c == Char(line, 1)
             rest == SubSeq(line, 2, Len(line))
         IN IF inside THEN StripEscapes(rest, c # "m")
            ELSE IF c = ESC THEN StripEscapes(rest, TRUE)
            ELSE c \o StripEscapes(rest, FALSE)

Undecorated(line) == StripEscapes(StripIndent(line), FALSE)

EndsWith(s, suffix) ==
    Len(suffix) <= Len(s) /\ SubSeq(s, Len(s) - Len(suffix) + 1, Len(s)) = suffix

\* bracketed is header with "[" and "]" put around its "Created ... ago"
BracketsAdded(header, bracketed) ==
    \E i, j \in 1..Len(header) :
        /\ i <= j
        /\ StartsWith(SubSeq(header, i, j), "Created ")
        /\ EndsWith(SubSeq(header, i, j), " ago")
        /\ bracketed = SubSeq(header, 1, i - 1) \o "[" \o SubSeq(header, i, j)
                       \o "]" \o SubSeq(header, j + 1, Len(header))

BothPrinted == ret.formatted # None /\ ret.unformatted # None

\* C8: removing the escape sequences and the leading indentation from the
\* lines print_session prints gives exactly the lines
\* print_unformatted_session prints for the same session.
C8_SameLines ==
    (status = "done" /\ BothPrinted) =>
        LET formatted == ret.formatted[1]
        IN [i \in 1..Len(formatted) |-> Undecorated(formatted[i])] = ret.unformatted[1]

\* C8 as amended: print_session prints the lines of print_unformatted_session
\* followed by one empty line; without their escape sequences and leading
\* indentation the lines are the same, except that the header of
\* print_session has its "Created ... ago" in square brackets.
C8_SameLinesUpToBracketsAndBlank ==
    (status = "done" /\ BothPrinted) =>
        LET formatted == ret.formatted[1]
            unformatted == ret.unformatted[1]
        IN /\ Len(formatted) = Len(unformatted) + 1
           /\ formatted[Len(formatted)] = ""
           /\ BracketsAdded(unformatted[1], Undecorated(formatted[1]))
           /\ \A i \in 2..Len(unformatted) : Undecorated(formatted[i]) = unformatted[i]

\* the current session, with an unnamed tab and a named tab, one command each
C8_Witness ==
    /\ status = "done" /\ BothPrinted
    /\ arg.is_current
    /\ Len(arg.tabs) = 2
    /\ arg.tabs[1].name = None /\ arg.tabs[1].commands = <<RunAlias>>
    /\ arg.tabs[2].name = Some("main") /\ arg.tabs[2].commands = <<RunVim>>
    /\ Len(ret.formatted[1]) = 6
    /\ Len(ret.unformatted[1]) = 5

====
